---- MODULE Spec2Model ----
(***************************************************************************)
(* Data-access layer of the inventory application (src/lib/db.ts):         *)
(* lazily initialised singleton client, query facade and transaction       *)
(* coordinator, driven by concurrent callers on one event loop.            *)
(*                                                                         *)
(* An action is the code of one async function between two awaits, up to   *)
(* and including the client.execute call it ends with.  The engine         *)
(* executes a statement atomically when it is issued (one handle,          *)
(* statements are serialised in arrival order).  A continuation that only  *)
(* returns or rethrows (it issues nothing and touches no shared state) is  *)
(* part of the step that issued the awaited statement.                     *)
(***************************************************************************)
EXTENDS Integers, Sequences, FiniteSets, TLC

\* ------------------------------------------------------------------ bounds
\* Number of concurrent callers; number of calls transaction bodies make on
\* their scoped facades (all bodies together).
NumCallers == 2
MaxBodySteps == 2

Callers == 1..NumCallers

\* Number of distinct password hashes bcrypt may produce for "admin123";
\* number of process starts against one store file.
NumHashes == 3
MaxSeedRuns == 3

Hashes == 1..NumHashes

\* ------------------------------------------------------- program constants
\* The eight statements of initializeDatabase, in source order.
InitStmts == << "CREATE users", "CREATE products", "CREATE sales", "CREATE expenses",
                "SEED admin1", "SEED SKU001", "SEED SKU002", "SEED SKU003" >>

NULL == 0

Ops == {"all", "get", "run", "transaction", "getRawClient"}

\* Error values (what a promise rejects with).
CreateClientError == "CreateClientError"
InitStmtError     == "InitStmtError"
NotInitialized    == "Database client not initialized"
NestedError       == "Nested transactions not supported"
StmtError         == "StmtError"
BodyError         == "BodyError"
BeginError        == "cannot start a transaction within a transaction"
CommitNoTxError   == "cannot commit - no transaction is active"
CommitOtherError  == "CommitError"
RollbackNoTxError == "cannot rollback - no transaction is active"

\* What an operation resolves with: nothing yet, undefined (run), null, one
\* row, a sequence of rows.
NoValue == [tag |-> "none"]
Void == [tag |-> "undefined"]
Null == [tag |-> "null"]
RowValue(r) == [tag |-> "row", row |-> r]
RowsValue(rows) == [tag |-> "rows", rows |-> rows]

\* Errors whose message contains the phrase "no transaction is active".
NoTxPhrase == {CommitNoTxError, RollbackNoTxError}

VARIABLES
    libsqlClient,           \* module variable: NULL or the handle createClient returned
    initializationPromise,  \* module variable: "null" | "pending" | "fulfilled" | "rejected"
    initPc,                 \* index of the init statement whose result is awaited (0: none)
    initRes,                \* result of that statement
    initErr,                \* what initializationPromise rejected with
    initIssued,             \* init statements issued to the engine, in order
    initDone,               \* init statements that completed successfully
    createClientCalls,      \* number of createClient calls
    initRuns,               \* number of initializeDatabase invocations
    engine,                 \* the connection: open transaction, committed and pending rows
    pc, op, client, res, err, outcome,   \* per caller
    steps, bodyWrites, log, issued,      \* per caller
    body, nested,                        \* per caller
    value,                  \* per caller: what the last read / write call returned
    stmtFailed,             \* per caller: a statement of the scoped facade has failed
    seed                    \* the seeded rows of the store file, across process starts

vars == << libsqlClient, initializationPromise, initPc, initRes, initErr, initIssued,
           initDone, createClientCalls, initRuns, engine,
           pc, op, client, res, err, outcome, steps, bodyWrites, log, issued,
           body, nested, value, stmtFailed, seed >>

initVars == << libsqlClient, initializationPromise, initPc, initRes, initErr, initIssued,
               initDone, createClientCalls, initRuns >>

\* ------------------------------------------------------------- the engine
\* The connection behind the handle, as the code drives it (file: or :memory:
\* SQLite).  tx: a transaction is open; owner: the caller whose BEGIN opened
\* it (history, the engine does not know it); committed: the rows of the
\* store; pending: rows written inside the open transaction.
\*  - BEGIN inside an open transaction is rejected;
\*  - COMMIT and ROLLBACK without an open transaction fail with
\*    "... no transaction is active";
\*  - COMMIT may fail otherwise (e.g. busy) and then leaves the transaction open;
\*  - a failing statement may make the engine roll the open transaction back
\*    by itself (ON CONFLICT ROLLBACK, disk full, I/O error, ...): the case
\*    lines 209 and 217 of db.ts name "already rolled back".
Row(c, n) == << c, n >>

EngineInit == [tx |-> FALSE, owner |-> 0, committed |-> {}, pending |-> {}]

Visible(e) == e.committed \cup e.pending

RolledBack(e) == [e EXCEPT !.tx = FALSE, !.owner = 0, !.pending = {}]

Committed(e) == [e EXCEPT !.tx = FALSE, !.owner = 0,
                          !.committed = e.committed \cup e.pending, !.pending = {}]

\* Outcomes of a directive: the set of <<result, engine afterwards>>.
ExecDirective(e, c, d) ==
    CASE d = "BEGIN" ->
           IF e.tx THEN { << BeginError, e >> }
                   ELSE { << "ok", [e EXCEPT !.tx = TRUE, !.owner = c] >> }
      [] d = "COMMIT" ->
           IF e.tx THEN { << "ok", Committed(e) >>, << CommitOtherError, e >> }
                   ELSE { << CommitNoTxError, e >> }
      [] d = "ROLLBACK" ->
           IF e.tx THEN { << "ok", RolledBack(e) >> }
                   ELSE { << RollbackNoTxError, e >> }

\* Outcomes of a data statement.  A failing statement leaves the store as it
\* was; inside a transaction the engine may also roll the transaction back.
ExecWrite(e, r) ==
    { << "ok", IF e.tx THEN [e EXCEPT !.pending = e.pending \cup {r}]
                       ELSE [e EXCEPT !.committed = e.committed \cup {r}] >>,
      << StmtError, e >> }
    \cup (IF e.tx THEN { << StmtError, RolledBack(e) >> } ELSE {})

\* Rows come back in rowid order; the model orders them by writer and number.
RowBefore(r, s) == r[1] < s[1] \/ (r[1] = s[1] /\ r[2] < s[2])

RECURSIVE ResultRows(_)
ResultRows(S) ==
    IF S = {} THEN << >>
    ELSE LET last == CHOOSE r \in S : \A s \in S \ {r} : RowBefore(s, r)
         IN  Append(ResultRows(S \ {last}), last)

\* The rows a SELECT matches: the rows callers have written (the tables are
\* empty after initialisation but for the seeds), or the row with one key.
\* Rows pending in the open transaction are visible on the connection.
SelectAll(e) == {r \in Visible(e) : r[1] \in Callers}
SelectKey(e, k) == {r \in Visible(e) : r = k}

\* Outcomes of a SELECT matching the rows S:
\* the set of <<result, engine afterwards, result.rows>>.
ExecRead(e, S) ==
    { << "ok", e, ResultRows(S) >>, << StmtError, e, << >> >> }
    \cup (IF e.tx THEN { << StmtError, RolledBack(e), << >> >> } ELSE {})

\* Init statement i: CREATE TABLE IF NOT EXISTS / INSERT OR IGNORE (autocommit).
ExecInitStmt(e, i) ==
    { << "ok", IF i > 4 THEN [e EXCEPT !.committed = e.committed \cup {Row(0, i)}] ELSE e >>,
      << InitStmtError, e >> }

\* The seeded tables of a new store file, no process started.
SeedInit == [users |-> {}, products |-> {}, pc |-> 0, runs |-> 0, offered |-> 0]

\* ----------------------------------------------------------- initial state
Init ==
    /\ libsqlClient = NULL
    /\ initializationPromise = "null"
    /\ initPc = 0
    /\ initRes = "ok"
    /\ initErr = "none"
    /\ initIssued = << >>
    /\ initDone = {}
    /\ createClientCalls = 0
    /\ initRuns = 0
    /\ engine = EngineInit
    /\ pc = [c \in Callers |-> "idle"]
    /\ op = [c \in Callers |-> "none"]
    /\ client = [c \in Callers |-> NULL]
    /\ res = [c \in Callers |-> "ok"]
    /\ err = [c \in Callers |-> "none"]
    /\ outcome = [c \in Callers |-> "none"]
    /\ steps = [c \in Callers |-> 0]
    /\ bodyWrites = [c \in Callers |-> {}]
    /\ log = [c \in Callers |-> << >>]
    /\ issued = [c \in Callers |-> 0]
    /\ body = [c \in Callers |-> "none"]
    /\ nested = [c \in Callers |-> 0]
    /\ value = [c \in Callers |-> NoValue]
    /\ stmtFailed = [c \in Callers |-> FALSE]
    /\ seed = SeedInit

\* ------------------------------------------------------ initializeDatabase
\* Faulty variant: the seed section stands before the CREATE TABLE section.
IssueInitSeedsFirst(i) ==
    \E o \in ExecInitStmt(engine, IF i > 4 THEN i - 4 ELSE i + 4) :
        /\ initRes' = o[1]
        /\ engine' = o[2]
        /\ initPc' = i
        /\ initIssued' = Append(initIssued, IF i > 4 THEN i - 4 ELSE i + 4)

\* await libsqlClient.execute(<init statement i>): the statement is issued.
IssueInit(i) ==
    \E o \in ExecInitStmt(engine, i) :
        /\ initRes' = o[1]
        /\ engine' = o[2]
        /\ initPc' = i
        /\ initIssued' = Append(initIssued, i)

\* initializeDatabase() from its call to its first await (lines 18-43).
InitializeDatabaseStart ==
    /\ initRuns' = initRuns + 1
    /\ IF libsqlClient # NULL
       THEN \* line 19: if (libsqlClient) return
            /\ initializationPromise' = "fulfilled"
            /\ UNCHANGED << libsqlClient, initPc, initRes, initErr, initIssued,
                            initDone, createClientCalls, engine >>
       ELSE /\ createClientCalls' = createClientCalls + 1
            /\ \/ \* createClient throws (e.g. the data folder is missing)
                  /\ initializationPromise' = "rejected"
                  /\ initErr' = CreateClientError
                  /\ UNCHANGED << libsqlClient, initPc, initRes, initIssued,
                                  initDone, engine >>
               \/ /\ libsqlClient' = createClientCalls + 1
                  /\ initializationPromise' = "pending"
                  /\ IssueInit(1)
                  /\ UNCHANGED << initErr, initDone >>

\* initializeDatabase() resumes after an awaited statement (lines 43-129).
InitializeDatabaseStep ==
    /\ initializationPromise = "pending"
    /\ initPc \in 1..Len(InitStmts)
    /\ IF initRes # "ok"
       THEN \* the statement threw: the promise rejects (lines 137-140)
            /\ initializationPromise' = "rejected"
            /\ initErr' = initRes
            /\ initPc' = 0
            /\ UNCHANGED << initRes, initIssued, initDone, engine >>
       ELSE /\ initDone' = initDone \cup {initPc}
            /\ IF initPc = Len(InitStmts)
               THEN /\ initializationPromise' = "fulfilled"
                    /\ initPc' = 0
                    /\ UNCHANGED << initRes, initIssued, engine >>
               ELSE /\ IssueInit(initPc + 1)
                    /\ UNCHANGED initializationPromise
            /\ UNCHANGED initErr
    /\ UNCHANGED << libsqlClient, createClientCalls, initRuns,
                    pc, op, client, res, err, outcome, steps, bodyWrites, log, issued,
                    body, nested, value, stmtFailed, seed >>

\* ---------------------------------------------------- getInitializedClient
\* Faulty variants of line 136: the token is reset by a failure; the token is
\* recorded only when initialisation has completed.
ShouldStartInitRetry == initializationPromise \in {"null", "rejected"}
ShouldStartInitUnlessDone == initializationPromise # "fulfilled"

\* line 136: if (!initializationPromise)
ShouldStartInit == initializationPromise = "null"

\* Faulty variant of line 143: a caller goes on as soon as the client exists.
AwaitInitReadyEarly ==
    initializationPromise \in {"fulfilled", "rejected"} \/ libsqlClient # NULL

\* line 143: await initializationPromise -- the caller resumes once it settled.
AwaitInitReady == initializationPromise \in {"fulfilled", "rejected"}

\* lines 143-149: what the awaiting caller gets: "ok" (the handle) or the error.
GetInitializedClientResult ==
    IF initializationPromise = "rejected" THEN initErr
    ELSE IF libsqlClient = NULL THEN NotInitialized
    ELSE "ok"

\* A caller invokes db.all / db.get / db.run / db.transaction / getRawClient: it runs
\* getInitializedClient up to its await (lines 135-143).
Call(c, o) ==
    /\ pc[c] = "idle"
    /\ op' = [op EXCEPT ![c] = o]
    /\ pc' = [pc EXCEPT ![c] = "awaitInit"]
    /\ IF ShouldStartInit
       THEN InitializeDatabaseStart
       ELSE UNCHANGED << initVars, engine >>
    /\ UNCHANGED << client, res, err, outcome, steps, bodyWrites, log, issued, body, nested,
                    value, stmtFailed, seed >>

\* The operation's promise settles: "resolved", or the error it rejects with.
\* The function has returned, its locals are gone.
Settle(c, e) ==
    /\ pc' = [pc EXCEPT ![c] = "done"]
    /\ outcome' = [outcome EXCEPT ![c] = e]
    /\ res' = [res EXCEPT ![c] = "ok"]
    /\ err' = [err EXCEPT ![c] = "none"]

\* The caller resumes from getInitializedClient with an error.
InitFailed(c) ==
    /\ Settle(c, GetInitializedClientResult)
    /\ UNCHANGED << engine, client, steps, bodyWrites, log, issued, body, nested, value >>

\* ------------------------------------------------------------ query facade
\* lines 167 and 190: return result.rows
AllResult(rows) == RowsValue(rows)

\* Faulty variant of lines 173 and 194: without "?? null".
GetResultUndefined(rows) == IF Len(rows) > 0 THEN RowValue(rows[1]) ELSE Void

\* lines 173 and 194: return result.rows[0] ?? null
GetResult(rows) == IF Len(rows) > 0 THEN RowValue(rows[1]) ELSE Null

\* await client.execute({sql, args}) of a top-level operation, and its return:
\* o is what the engine did, <<result, engine afterwards, ...>>; v is what the
\* operation returns when the statement succeeded.
TopLevelExecute(c, o, v) ==
    /\ engine' = o[2]
    /\ client' = [client EXCEPT ![c] = libsqlClient]
    /\ issued' = [issued EXCEPT ![c] = @ + 1]
    /\ value' = [value EXCEPT ![c] = IF o[1] = "ok" THEN v ELSE NoValue]
    /\ Settle(c, IF o[1] = "ok" THEN "resolved" ELSE o[1])
    /\ UNCHANGED << steps, bodyWrites, log, body, nested >>

\* db.all, lines 164-168
DbAll(c) ==
    /\ pc[c] = "awaitInit" /\ op[c] = "all" /\ AwaitInitReady
    /\ IF GetInitializedClientResult # "ok" THEN InitFailed(c)
       ELSE \E o \in ExecRead(engine, SelectAll(engine)) :
                TopLevelExecute(c, o, AllResult(o[3]))
    /\ UNCHANGED << initVars, op, stmtFailed, seed >>

\* db.get, lines 170-174
DbGet(c) ==
    /\ pc[c] = "awaitInit" /\ op[c] = "get" /\ AwaitInitReady
    /\ IF GetInitializedClientResult # "ok" THEN InitFailed(c)
       ELSE \E o \in ExecRead(engine, SelectAll(engine)) :
                TopLevelExecute(c, o, GetResult(o[3]))
    /\ UNCHANGED << initVars, op, stmtFailed, seed >>

\* db.run, lines 176-179
DbRun(c) ==
    /\ pc[c] = "awaitInit" /\ op[c] = "run" /\ AwaitInitReady
    /\ IF GetInitializedClientResult # "ok" THEN InitFailed(c)
       ELSE \E o \in ExecWrite(engine, Row(c, 0)) : TopLevelExecute(c, o, Void)
    /\ UNCHANGED << initVars, op, stmtFailed, seed >>

\* The caller whose db.run has resolved goes on with db.get for the row it
\* wrote (await db.run(...); await db.get(...)): getInitializedClient
\* returns the handle, the SELECT is issued (lines 170-174).
DbGetAfterRun(c) ==
    /\ pc[c] = "done" /\ op[c] = "run" /\ outcome[c] = "resolved"
    /\ op' = [op EXCEPT ![c] = "runGet"]
    /\ \E o \in ExecRead(engine, SelectKey(engine, Row(c, 0))) :
            TopLevelExecute(c, o, GetResult(o[3]))
    /\ UNCHANGED << initVars, stmtFailed, seed >>

\* getRawClient = getInitializedClient (line 229): the caller gets the handle.
GetRawClient(c) ==
    /\ pc[c] = "awaitInit" /\ op[c] = "getRawClient" /\ AwaitInitReady
    /\ IF GetInitializedClientResult # "ok" THEN InitFailed(c)
       ELSE /\ client' = [client EXCEPT ![c] = libsqlClient]
            /\ Settle(c, "resolved")
            /\ UNCHANGED << engine, steps, bodyWrites, log, issued, body, nested, value >>
    /\ UNCHANGED << initVars, op, stmtFailed, seed >>

\* --------------------------------------------------- transaction coordinator
\* await client.execute(d), d one of BEGIN / COMMIT / ROLLBACK, issued by the
\* db.transaction call of c; o is what the engine did.  The log keeps the
\* directive, its result and the owner of the transaction that was open when
\* the directive arrived.
IssueDirective(c, d, o) ==
    /\ o \in ExecDirective(engine, c, d)
    /\ engine' = o[2]
    /\ log' = [log EXCEPT ![c] = Append(@, << d, o[1], engine.owner >>)]
    /\ issued' = [issued EXCEPT ![c] = @ + 1]

\* Faulty variant of lines 184-186: BEGIN inside the try block, so a failing
\* BEGIN is caught at line 216 and followed by ROLLBACK.
DbTransactionBeginInTry(c) ==
    /\ pc[c] = "awaitInit" /\ op[c] = "transaction" /\ AwaitInitReady
    /\ IF GetInitializedClientResult # "ok" THEN InitFailed(c)
       ELSE /\ client' = [client EXCEPT ![c] = libsqlClient]
            /\ \E o \in ExecDirective(engine, c, "BEGIN") :
                /\ IssueDirective(c, "BEGIN", o)
                /\ pc' = [pc EXCEPT ![c] = IF o[1] = "ok" THEN "inBody" ELSE "commitFailed"]
                /\ err' = [err EXCEPT ![c] = IF o[1] = "ok" THEN @ ELSE o[1]]
                /\ UNCHANGED << res, outcome >>
            /\ UNCHANGED << steps, bodyWrites, body, nested, value >>
    /\ UNCHANGED << initVars, op, stmtFailed, seed >>

\* db.transaction, lines 181-204: BEGIN is outside the try block, so a failing
\* BEGIN rejects the call; otherwise the callback is invoked.
DbTransaction(c) ==
    /\ pc[c] = "awaitInit" /\ op[c] = "transaction" /\ AwaitInitReady
    /\ IF GetInitializedClientResult # "ok" THEN InitFailed(c)
       ELSE /\ client' = [client EXCEPT ![c] = libsqlClient]
            /\ \E o \in ExecDirective(engine, c, "BEGIN") :
                /\ IssueDirective(c, "BEGIN", o)
                /\ IF o[1] = "ok"
                   THEN /\ pc' = [pc EXCEPT ![c] = "inBody"]
                        /\ UNCHANGED << res, err, outcome >>
                   ELSE Settle(c, o[1])
            /\ UNCHANGED << steps, bodyWrites, body, nested, value >>
    /\ UNCHANGED << initVars, op, stmtFailed, seed >>

\* The callback is running (invoked at line 204, or resumed after one of its
\* own awaits).
InBody(c) == pc[c] = "inBody"

\* Calls made so far on scoped facades, all bodies together.
BodyCalls ==
    LET sum[i \in 0..NumCallers] ==
            IF i = 0 THEN 0 ELSE steps[i] + nested[i] + sum[i - 1]
    IN  sum[NumCallers]

MoreBody == BodyCalls < MaxBodySteps

\* client.execute({sql, args}) of the scoped facade: o is what the engine
\* did, w the row written, if any, v what the call returns on success.
TxExecute(c, o, w, v) ==
    /\ res' = [res EXCEPT ![c] = o[1]]
    /\ engine' = o[2]
    /\ issued' = [issued EXCEPT ![c] = @ + 1]
    /\ steps' = [steps EXCEPT ![c] = @ + 1]
    /\ bodyWrites' = [bodyWrites EXCEPT ![c] = IF o[1] = "ok" THEN @ \cup w ELSE @]
    /\ value' = [value EXCEPT ![c] = IF o[1] = "ok" THEN v ELSE NoValue]
    /\ stmtFailed' = [stmtFailed EXCEPT ![c] = @ \/ o[1] # "ok"]

\* txDb.all, lines 188-191
TxDbAll(c) ==
    /\ InBody(c) /\ MoreBody
    /\ \E o \in ExecRead(engine, SelectAll(engine)) :
            TxExecute(c, o, {}, AllResult(o[3]))
    /\ UNCHANGED << initVars, pc, op, client, err, outcome, log, body, nested, seed >>

\* txDb.get, lines 192-195
TxDbGet(c) ==
    /\ InBody(c) /\ MoreBody
    /\ \E o \in ExecRead(engine, SelectAll(engine)) :
            TxExecute(c, o, {}, GetResult(o[3]))
    /\ UNCHANGED << initVars, pc, op, client, err, outcome, log, body, nested, seed >>

\* txDb.run, lines 196-198
TxDbRun(c) ==
    /\ InBody(c) /\ MoreBody
    /\ \E o \in ExecWrite(engine, Row(c, steps[c] + 1)) :
            TxExecute(c, o, {Row(c, steps[c] + 1)}, Void)
    /\ UNCHANGED << initVars, pc, op, client, err, outcome, log, body, nested, seed >>

\* Faulty variant of lines 199-201: the nested call behaves like db.transaction
\* and issues BEGIN.
NestedTransactionFlattened(c) ==
    /\ \E o \in ExecDirective(engine, c, "BEGIN") :
        /\ IssueDirective(c, "BEGIN", o)
        /\ res' = [res EXCEPT ![c] = o[1]]

\* txDb.transaction(cb), lines 199-201: throws, cb is not called.
NestedTransaction(c) ==
    /\ res' = [res EXCEPT ![c] = NestedError]
    /\ UNCHANGED << engine, log, issued >>

\* The body calls transaction on the scoped facade and awaits it.
TxDbTransaction(c) ==
    /\ InBody(c) /\ MoreBody
    /\ nested' = [nested EXCEPT ![c] = @ + 1]
    /\ NestedTransaction(c)
    /\ UNCHANGED << initVars, pc, op, client, err, outcome, steps, bodyWrites, body,
                    value, stmtFailed, seed >>

\* line 207: the directive of the commit path.
CommitDirective == "COMMIT"

\* Faulty variants of line 210: no commit error is taken as benign; every
\* commit error is.
IsBenignCommitErrorNever(e) == FALSE
IsBenignCommitErrorAlways(e) == TRUE

\* line 210: commitError instanceof Error &&
\*           commitError.message.includes("no transaction is active")
\* (every error the engine reports is an Error instance)
IsBenignCommitError(e) == e \in NoTxPhrase

\* The body returns normally: line 204 resumes, line 207 issues COMMIT; on
\* success or a benign failure line 215 returns the result, any other commit
\* error is thrown (line 211) and caught at line 216.
BodyReturn(c) ==
    /\ InBody(c)
    /\ body' = [body EXCEPT ![c] = "returned"]
    /\ \E o \in ExecDirective(engine, c, CommitDirective) :
        /\ IssueDirective(c, CommitDirective, o)
        /\ IF o[1] = "ok" \/ IsBenignCommitError(o[1])
           THEN Settle(c, "resolved")
           ELSE /\ pc' = [pc EXCEPT ![c] = "commitFailed"]
                /\ err' = [err EXCEPT ![c] = o[1]]
                /\ res' = [res EXCEPT ![c] = o[1]]
                /\ UNCHANGED outcome
    /\ value' = [value EXCEPT ![c] = NoValue]
    /\ UNCHANGED << initVars, op, client, steps, bodyWrites, nested, stmtFailed, seed >>

\* lines 218-223: what is thrown after the rollback attempt
\* (error: the caught error, r: the result of ROLLBACK).
Rethrown(error, r) == error

\* lines 216-224 after a failed COMMIT: ROLLBACK is attempted, its failure is
\* ignored, the commit error is rethrown.
RollbackAfterCommitError(c) ==
    /\ pc[c] = "commitFailed"
    /\ \E o \in ExecDirective(engine, c, "ROLLBACK") :
        /\ IssueDirective(c, "ROLLBACK", o)
        /\ Settle(c, Rethrown(err[c], o[1]))
    /\ UNCHANGED << initVars, op, client, steps, bodyWrites, body, nested,
                    value, stmtFailed, seed >>

\* What the body can throw: an error of its own, or the error of the
\* statement (or nested call) it has just awaited.
BodyThrowable(c) == {BodyError} \cup (IF res[c] # "ok" THEN {res[c]} ELSE {})

\* Faulty variant of lines 216-224: the error leaves db.transaction without
\* a ROLLBACK.
BodyThrowNoRollback(c) ==
    /\ InBody(c)
    /\ \E e \in BodyThrowable(c) :
        /\ body' = [body EXCEPT ![c] = e]
        /\ Settle(c, e)
    /\ value' = [value EXCEPT ![c] = NoValue]
    /\ UNCHANGED << initVars, engine, log, issued, op, client, steps, bodyWrites, nested,
                    stmtFailed, seed >>

\* The body throws: line 216 catches, line 219 issues ROLLBACK, line 223
\* rethrows.
BodyThrow(c) ==
    /\ InBody(c)
    /\ \E e \in BodyThrowable(c) :
        /\ body' = [body EXCEPT ![c] = e]
        /\ \E o \in ExecDirective(engine, c, "ROLLBACK") :
            /\ IssueDirective(c, "ROLLBACK", o)
            /\ Settle(c, Rethrown(e, o[1]))
    /\ value' = [value EXCEPT ![c] = NoValue]
    /\ UNCHANGED << initVars, op, client, steps, bodyWrites, nested, stmtFailed, seed >>

\* ------------------------------------------------------------ specification
Next ==
    \/ \E c \in Callers, o \in Ops : Call(c, o)
    \/ InitializeDatabaseStep
    \/ \E c \in Callers :
        \/ DbAll(c) \/ DbGet(c) \/ DbRun(c) \/ GetRawClient(c) \/ DbTransaction(c)
        \/ TxDbAll(c) \/ TxDbGet(c) \/ TxDbRun(c) \/ TxDbTransaction(c)
        \/ BodyReturn(c) \/ BodyThrow(c) \/ RollbackAfterCommitError(c)

Spec == Init /\ [][Next]_vars

\* Callers that go on with a second operation: db.get after db.run.
NextReadBack == Next \/ \E c \in Callers : DbGetAfterRun(c)

SpecReadBack == Init /\ [][NextReadBack]_vars

\* ------------------------------------------- the second db.transaction
\* src/lib/db.ts holds a second definition of the facade (lines 230-374) on
\* the client's transaction object: tx = await client.transaction() begins,
\* tx.execute runs the scoped statements, tx.commit() / tx.rollback() end it.
\* Its initialisation runs at module load; InitSecond is the state after it.
InitSecond ==
    /\ libsqlClient = 1
    /\ initializationPromise = "fulfilled"
    /\ initPc = 0
    /\ initRes = "ok"
    /\ initErr = "none"
    /\ initIssued = [i \in 1..Len(InitStmts) |-> i]
    /\ initDone = 1..Len(InitStmts)
    /\ createClientCalls = 1
    /\ initRuns = 1
    /\ engine = [EngineInit EXCEPT !.committed = {Row(0, i) : i \in 5..Len(InitStmts)}]
    /\ pc = [c \in Callers |-> "idle"]
    /\ op = [c \in Callers |-> "none"]
    /\ client = [c \in Callers |-> NULL]
    /\ res = [c \in Callers |-> "ok"]
    /\ err = [c \in Callers |-> "none"]
    /\ outcome = [c \in Callers |-> "none"]
    /\ steps = [c \in Callers |-> 0]
    /\ bodyWrites = [c \in Callers |-> {}]
    /\ log = [c \in Callers |-> << >>]
    /\ issued = [c \in Callers |-> 0]
    /\ body = [c \in Callers |-> "none"]
    /\ nested = [c \in Callers |-> 0]
    /\ value = [c \in Callers |-> NoValue]
    /\ stmtFailed = [c \in Callers |-> FALSE]
    /\ seed = SeedInit

\* lines 351-361: await initPromise; tx = await client.transaction(); fn(txDb)
Transaction2(c) ==
    /\ pc[c] = "idle"
    /\ op' = [op EXCEPT ![c] = "transaction"]
    /\ client' = [client EXCEPT ![c] = libsqlClient]
    /\ \E o \in ExecDirective(engine, c, "BEGIN") :
        /\ IssueDirective(c, "BEGIN", o)
        /\ IF o[1] = "ok"
           THEN /\ pc' = [pc EXCEPT ![c] = "inBody"]
                /\ UNCHANGED << res, err, outcome >>
           ELSE Settle(c, o[1])
    /\ UNCHANGED << initVars, steps, bodyWrites, body, nested, value, stmtFailed, seed >>

\* lines 361-364: the body returned, tx.commit(); any failure is caught.
BodyReturn2(c) ==
    /\ InBody(c)
    /\ body' = [body EXCEPT ![c] = "returned"]
    /\ \E o \in ExecDirective(engine, c, "COMMIT") :
        /\ IssueDirective(c, "COMMIT", o)
        /\ IF o[1] = "ok"
           THEN Settle(c, "resolved")
           ELSE /\ pc' = [pc EXCEPT ![c] = "commitFailed"]
                /\ err' = [err EXCEPT ![c] = o[1]]
                /\ res' = [res EXCEPT ![c] = o[1]]
                /\ UNCHANGED outcome
    /\ value' = [value EXCEPT ![c] = NoValue]
    /\ UNCHANGED << initVars, op, client, steps, bodyWrites, nested, stmtFailed, seed >>

\* lines 364-367: await tx.rollback() is not guarded: when it rejects, its
\* error leaves the catch block instead of e.
Rethrown2(e, r) == IF r # "ok" THEN r ELSE e

RollbackAfterCommitError2(c) ==
    /\ pc[c] = "commitFailed"
    /\ \E o \in ExecDirective(engine, c, "ROLLBACK") :
        /\ IssueDirective(c, "ROLLBACK", o)
        /\ Settle(c, Rethrown2(err[c], o[1]))
    /\ UNCHANGED << initVars, op, client, steps, bodyWrites, body, nested,
                    value, stmtFailed, seed >>

\* lines 361, 364-367: the body threw.
BodyThrow2(c) ==
    /\ InBody(c)
    /\ \E e \in BodyThrowable(c) :
        /\ body' = [body EXCEPT ![c] = e]
        /\ \E o \in ExecDirective(engine, c, "ROLLBACK") :
            /\ IssueDirective(c, "ROLLBACK", o)
            /\ Settle(c, Rethrown2(e, o[1]))
    /\ value' = [value EXCEPT ![c] = NoValue]
    /\ UNCHANGED << initVars, op, client, steps, bodyWrites, nested, stmtFailed, seed >>

NextSecond ==
    \E c \in Callers :
        \/ Transaction2(c)
        \/ TxDbAll(c) \/ TxDbGet(c) \/ TxDbRun(c) \/ TxDbTransaction(c)
        \/ BodyReturn2(c) \/ BodyThrow2(c) \/ RollbackAfterCommitError2(c)

SpecSecond == InitSecond /\ [][NextSecond]_vars

\* ------------------------------------------------- transactions, with fairness
\* Callers of db.transaction on the initialised module (a completed
\* initializeDatabase leaves the state InitSecond describes).  The event loop
\* runs the continuation of a settled await: a call whose COMMIT has failed
\* goes on to its catch block.  Nothing is assumed about the bodies.
NextLive ==
    \E c \in Callers :
        \/ Call(c, "transaction") \/ DbTransaction(c)
        \/ TxDbAll(c) \/ TxDbGet(c) \/ TxDbRun(c) \/ TxDbTransaction(c)
        \/ BodyReturn(c) \/ BodyThrow(c) \/ RollbackAfterCommitError(c)

SpecLive ==
    /\ InitSecond /\ [][NextLive]_vars
    /\ \A c \in Callers : WF_vars(RollbackAfterCommitError(c))

\* ------------------------------------------------------------ seeding
\* The seed statements with the column values of their rows, run against a
\* store file that outlives the process: every process start runs
\* initializeDatabase again, the seed route runs the admin insert on demand.
\* seed.users / seed.products are the tables, seed.pc the seed statement of
\* initializeDatabase that is awaited (0: none), seed.runs the number of
\* process starts, seed.offered the password of the last admin insert that
\* was executed.
AdminRow(h) == [id |-> "admin1", email |-> "admin@inventory.com", password |-> h]

ProductRow(i) ==
    [id |-> << "prod1", "prod2", "prod3" >>[i - 5],
     sku |-> << "SKU001", "SKU002", "SKU003" >>[i - 5],
     quantity |-> << 100, 200, 150 >>[i - 5]]

\* Rows of the table that clash with the new row on the primary key or on
\* the UNIQUE column.
UsersClash(table, row) == {r \in table : r.id = row.id \/ r.email = row.email}
ProductsClash(table, row) == {r \in table : r.id = row.id \/ r.sku = row.sku}

\* Faulty variant: INSERT OR REPLACE.
InsertOrReplace(table, row, clash) == (table \ clash) \cup {row}

\* INSERT OR IGNORE: the row is skipped when it clashes.
InsertOrIgnore(table, row, clash) == IF clash # {} THEN table ELSE table \cup {row}

\* lines 96-126: seed statement i of initializeDatabase, h: adminHashed.
SeedStmt(sd, i, h) ==
    IF i = 5
    THEN [sd EXCEPT !.users = InsertOrIgnore(@, AdminRow(h), UsersClash(@, AdminRow(h))),
                    !.offered = h]
    ELSE [sd EXCEPT !.products =
                        InsertOrIgnore(@, ProductRow(i), ProductsClash(@, ProductRow(i)))]

programVars == << initVars, engine, pc, op, client, res, err, outcome, steps, bodyWrites,
                  log, issued, body, nested, value, stmtFailed >>

\* A process starts and initializeDatabase reaches its seed section
\* (line 94: adminHashed = hashSync("admin123", 10)), or resumes after a
\* seed statement; the next statement is issued.  A failing statement ends
\* the sequence.
InitializeDatabaseSeed ==
    /\ \/ /\ seed.pc = 0 /\ seed.runs < MaxSeedRuns
          /\ \E h \in Hashes :
                \/ seed' = [SeedStmt(seed, 5, h) EXCEPT !.pc = 5, !.runs = @ + 1]
                \/ seed' = [seed EXCEPT !.runs = @ + 1]
       \/ /\ seed.pc \in 5..7
          /\ \/ seed' = [SeedStmt(seed, seed.pc + 1, 0) EXCEPT !.pc = seed.pc + 1]
             \/ seed' = [seed EXCEPT !.pc = 0]
       \/ /\ seed.pc = 8
          /\ seed' = [seed EXCEPT !.pc = 0]
    /\ UNCHANGED programVars

\* The seed route (GET): hash("admin123", 10), then db.run of the admin
\* insert, once the process is initialised (a failing insert changes nothing).
SeedRoute ==
    /\ seed.pc = 0 /\ seed.runs > 0
    /\ \E h \in Hashes : seed' = SeedStmt(seed, 5, h)
    /\ UNCHANGED programVars

NextSeed == InitializeDatabaseSeed \/ SeedRoute

SpecSeed == Init /\ [][NextSeed]_vars

\* ------------------------------------------------------------------ helpers
AllInitStmts == 1..Len(InitStmts)

\* How often init statement i was issued.
TimesIssued(i) == Cardinality({k \in 1..Len(initIssued) : initIssued[k] = i})

\* The directives db.transaction call c has issued, and the successful ones.
Issued(c, d) == {k \in 1..Len(log[c]) : log[c][k][1] = d}
Succeeded(c, d) == {k \in Issued(c, d) : log[c][k][2] = "ok"}
Terminal(c) == Succeeded(c, "COMMIT") \cup Succeeded(c, "ROLLBACK")

\* The scope of call c is between its successful BEGIN and its COMMIT or
\* ROLLBACK.
ScopeOpen(c) == pc[c] \in {"inBody", "commitFailed"}

BodyThrew(c) == body[c] \notin {"none", "returned"}

\* ===================================================================== claims

\* C1: initializeDatabase runs at most once however many callers arrive while
\* it is in flight: createClient is called at most once, every init statement
\* is issued at most once, and all callers that got a handle got the same one.
C1_InitOnce ==
    /\ initRuns <= 1
    /\ createClientCalls <= 1
    /\ \A i \in AllInitStmts : TimesIssued(i) <= 1
    /\ \A c, d \in Callers :
        client[c] # NULL /\ client[d] # NULL => client[c] = client[d]

\* C1 witness: every caller has obtained the handle of the single initialisation.
C1_Witness ==
    /\ \A c \in Callers : client[c] # NULL /\ client[c] = libsqlClient
    /\ initRuns = 1 /\ createClientCalls = 1
    /\ \A i \in AllInitStmts : TimesIssued(i) = 1

\* C2: when the body throws, db.transaction rejects and none of the rows the
\* body wrote through the scoped facade is in the store afterwards.
C2_RollbackProperty ==
    \A c \in Callers :
        pc[c] = "done" /\ BodyThrew(c) =>
            /\ outcome[c] # "resolved"
            /\ bodyWrites[c] \cap Visible(engine) = {}

\* C3: when the body returns and db.transaction resolves, every row the body
\* wrote through the scoped facade is in the store.
C3_CommitProperty ==
    \A c \in Callers :
        pc[c] = "done" /\ body[c] = "returned" /\ outcome[c] = "resolved" =>
            bodyWrites[c] \subseteq engine.committed

C5_OneOpenScope ==
    \A c, d \in Callers : c # d => ~(ScopeOpen(c) /\ ScopeOpen(d))

\* C6: db.transaction resolves with the body's result or rejects with the
\* root cause: the body's error when the body threw, the COMMIT error when
\* COMMIT failed; never the error of the ROLLBACK on the cleanup path.
C6_RootCause ==
    \A c \in Callers :
        pc[c] = "done" /\ 1 \in Succeeded(c, "BEGIN") =>
            /\ BodyThrew(c) => outcome[c] = body[c]
            /\ body[c] = "returned" =>
                \/ outcome[c] = "resolved"
                \/ outcome[c] = log[c][2][2] /\ outcome[c] # "ok"

\* C7: after the body returned: a COMMIT failing with "no transaction is
\* active" makes db.transaction resolve without any ROLLBACK; a COMMIT failing
\* otherwise is followed by a ROLLBACK attempt and db.transaction rejects with
\* the commit error whatever the ROLLBACK reports.
C7_CommitFailure ==
    \A c \in Callers :
        body[c] = "returned" =>
            /\ Len(log[c]) >= 2 /\ log[c][2][1] = "COMMIT"
            /\ log[c][2][2] = CommitNoTxError =>
                /\ pc[c] = "done" /\ outcome[c] = "resolved"
                /\ Issued(c, "ROLLBACK") = {}
            /\ log[c][2][2] = CommitOtherError =>
                \/ pc[c] = "commitFailed" /\ Issued(c, "ROLLBACK") = {}
                \/ /\ pc[c] = "done" /\ outcome[c] = CommitOtherError
                   /\ Issued(c, "ROLLBACK") = {3}

\* C7 witness: one call resolved after the benign commit failure, another
\* rejected with its commit error although its ROLLBACK failed too.
C7_Witness ==
    \E c, d \in Callers :
        /\ body[c] = "returned" /\ pc[c] = "done" /\ outcome[c] = "resolved"
        /\ log[c][2][2] = CommitNoTxError
        /\ body[d] = "returned" /\ pc[d] = "done" /\ outcome[d] = CommitOtherError
        /\ Len(log[d]) = 3 /\ log[d][3][2] = RollbackNoTxError

\* C8: a transaction call on the scoped facade fails with the nested
\* transaction error and does nothing else: no statement and no directive is
\* issued, the engine and the outer scope are as before.
C8_NestedRejected ==
    [][\A c \in Callers :
         nested'[c] # nested[c] =>
            /\ res'[c] = NestedError
            /\ engine' = engine
            /\ issued' = issued
            /\ log' = log
            /\ bodyWrites' = bodyWrites
            /\ pc'[c] = "inBody"]_vars

\* C8 witness: the nested call was rejected while the outer transaction is open.
C8_Witness ==
    \E c \in Callers :
        /\ nested[c] > 0 /\ res[c] = NestedError /\ pc[c] = "inBody"
        /\ engine.tx /\ engine.owner = c /\ Len(log[c]) = 1

\* C9: a caller's statement (BEGIN included) is issued only when all init
\* statements have completed successfully.
C9_InitBeforeStatements ==
    \A c \in Callers :
        issued[c] > 0 \/ client[c] # NULL =>
            initDone = AllInitStmts /\ initializationPromise = "fulfilled"

\* C9 witness: the last seed statement is in flight, every caller has called
\* and waits, none has issued anything.
C9_Witness ==
    /\ initializationPromise = "pending" /\ Len(initIssued) = Len(InitStmts)
    /\ \A c \in Callers : pc[c] = "awaitInit" /\ issued[c] = 0

\* C10: a failed initialisation is terminal: the token stays rejected with
\* the same error, initializeDatabase is not started again, no init statement
\* is issued any more, and every call rejects with the initialisation error
\* without issuing a statement.
C10_InitFailureTerminal ==
    /\ [](initializationPromise = "rejected" =>
            /\ initRuns = 1
            /\ \A c \in Callers :
                /\ issued[c] = 0 /\ client[c] = NULL
                /\ pc[c] \in {"idle", "awaitInit", "done"}
                /\ pc[c] = "done" => outcome[c] = initErr /\ initErr # "none")
    /\ [][initializationPromise = "rejected" =>
            /\ initializationPromise' = "rejected"
            /\ initErr' = initErr
            /\ initRuns' = initRuns
            /\ initIssued' = initIssued]_vars

\* C10 witness: initialisation failed at a statement (the client exists), and
\* every caller was rejected with that error.
C10_Witness ==
    /\ initializationPromise = "rejected" /\ initErr = InitStmtError
    /\ libsqlClient # NULL
    /\ \A c \in Callers : pc[c] = "done" /\ outcome[c] = InitStmtError

\* The db.run of caller c has resolved.
RunResolved(c) == (op[c] = "run" /\ outcome[c] = "resolved") \/ op[c] = "runGet"

\* C11: a db.get for the key a resolved db.run of the same caller has written,
\* issued right after it, returns that row, whatever other callers do.
C11_ReadYourWrite ==
    \A c \in Callers :
        op[c] = "runGet" /\ outcome[c] = "resolved" => value[c] = RowValue(Row(c, 0))

\* The rows of the seeded tables with a seeded key.
AdminRows(sd) == {r \in sd.users : r.id = "admin1"}
SkuRows(sd, k) == {r \in sd.products : r.sku = k}
SeededSkus == {"SKU001", "SKU002", "SKU003"}

\* C12: however often the seed statements run against one store, with
\* whatever password hash: there is never more than one row per seeded key,
\* a row once inserted is never changed or removed, and after a completed
\* seed section (or a seed-route insert) there is exactly one row per key.
C12_SeedIdempotent ==
    /\ [](/\ Cardinality(AdminRows(seed)) <= 1
          /\ \A k \in SeededSkus : Cardinality(SkuRows(seed, k)) <= 1)
    /\ [][/\ seed.users \subseteq seed'.users
          /\ seed.products \subseteq seed'.products
          /\ SeedRoute => Cardinality(AdminRows(seed')) = 1
          /\ seed.pc = 8 /\ seed'.pc = 0 =>
                /\ Cardinality(AdminRows(seed')) = 1
                /\ \A k \in SeededSkus : Cardinality(SkuRows(seed', k)) = 1]_vars

\* C12 witness: all seeds are there after more than one process start, and
\* the last admin insert carried another password than the one stored.
C12_Witness ==
    /\ seed.runs >= 2 /\ seed.pc = 0
    /\ \A k \in SeededSkus : SkuRows(seed, k) # {}
    /\ \E r \in AdminRows(seed) : seed.offered \notin {0, r.password}

\* The first of the rows S in the engine's order.
FirstRow(S) == CHOOSE r \in S : \A s \in S \ {r} : RowBefore(r, s)

\* What get and all have to return for the matched rows S.
ExpectedGet(S) == IF S = {} THEN Null ELSE RowValue(FirstRow(S))

IsExpectedAll(v, S) ==
    /\ v.tag = "rows"
    /\ Len(v.rows) = Cardinality(S)
    /\ \A r \in S : \E k \in 1..Len(v.rows) : v.rows[k] = r
    /\ \A j, k \in 1..Len(v.rows) : j < k => RowBefore(v.rows[j], v.rows[k])

\* C13: db.get and the scoped get resolve with null when the statement matches
\* no row and with the first row in engine order otherwise; db.all and the
\* scoped all resolve with the matched rows in order (the empty sequence for
\* none); such a call fails only with the error the engine reported.
C13_ReadResults ==
    [][\A c \in Callers :
         /\ DbGet(c) /\ issued'[c] # issued[c] =>
              \/ outcome'[c] = "resolved" /\ value'[c] = ExpectedGet(SelectAll(engine))
              \/ outcome'[c] = StmtError /\ value'[c] = NoValue
         /\ TxDbGet(c) =>
              \/ res'[c] = "ok" /\ value'[c] = ExpectedGet(SelectAll(engine))
              \/ res'[c] = StmtError /\ value'[c] = NoValue
         /\ DbAll(c) /\ issued'[c] # issued[c] =>
              \/ outcome'[c] = "resolved" /\ IsExpectedAll(value'[c], SelectAll(engine))
              \/ outcome'[c] = StmtError /\ value'[c] = NoValue
         /\ TxDbAll(c) =>
              \/ res'[c] = "ok" /\ IsExpectedAll(value'[c], SelectAll(engine))
              \/ res'[c] = StmtError /\ value'[c] = NoValue]_vars

\* C13 witness: a db.get that matched no row has resolved with null, and a
\* scoped get has returned the row its body wrote before.
C13_Witness ==
    \E c, d \in Callers :
        /\ op[c] = "get" /\ pc[c] = "done" /\ outcome[c] = "resolved" /\ value[c] = Null
        /\ InBody(d) /\ res[d] = "ok" /\ value[d] = RowValue(Row(d, 1))

\* C14 as claimed: once a statement of the scoped facade has failed,
\* db.transaction attempts ROLLBACK and commits nothing, whether the body
\* lets the error propagate or catches it and returns.
C14_RollbackOnAnyFailure ==
    \A c \in Callers :
        stmtFailed[c] /\ pc[c] = "done" =>
            Issued(c, "ROLLBACK") # {} /\ Succeeded(c, "COMMIT") = {}

\* C14, amended: after a statement of the scoped facade has failed,
\* db.transaction issues nothing while the body runs; when the body lets an
\* error propagate it attempts ROLLBACK and issues no COMMIT; when the body
\* catches the error and returns it issues COMMIT.
C14_RollbackOnPropagatedFailure ==
    \A c \in Callers :
        stmtFailed[c] =>
            /\ InBody(c) => Len(log[c]) = 1
            /\ BodyThrew(c) =>
                /\ pc[c] = "done" /\ outcome[c] = body[c]
                /\ Issued(c, "ROLLBACK") = {2} /\ Issued(c, "COMMIT") = {}
            /\ body[c] = "returned" => Issued(c, "COMMIT") = {2}

\* C14 witness: a statement failed in two bodies; one rethrew the statement's
\* error and its call rolled back, the other returned and its call committed.
C14_Witness ==
    \E c, d \in Callers :
        /\ stmtFailed[c] /\ pc[c] = "done" /\ body[c] = StmtError
        /\ Succeeded(c, "ROLLBACK") = {2}
        /\ stmtFailed[d] /\ pc[d] = "done" /\ body[d] = "returned"
        /\ Succeeded(d, "COMMIT") = {2}

\* The BEGIN of db.transaction call c has failed.
BeginFailed(c) == log[c] # << >> /\ log[c][1][2] # "ok"

\* C15: the body runs only after a successful BEGIN; when BEGIN fails the call
\* rejects with the BEGIN error, the body is never invoked, no COMMIT and no
\* ROLLBACK is issued, and the step of the failing BEGIN leaves the
\* transaction that was open, another call's, as it was.
C15_BeginFailure ==
    /\ [](\A c \in Callers :
            /\ InBody(c) \/ body[c] # "none" \/ steps[c] > 0 \/ nested[c] > 0 =>
                    1 \in Succeeded(c, "BEGIN")
            /\ BeginFailed(c) =>
                /\ pc[c] = "done" /\ outcome[c] = log[c][1][2]
                /\ Len(log[c]) = 1 /\ issued[c] = 1
                /\ body[c] = "none" /\ steps[c] = 0 /\ nested[c] = 0)
    /\ [][\A c \in Callers :
            ~BeginFailed(c) /\ BeginFailed(c)' =>
                engine.tx /\ engine.owner # c /\ engine' = engine]_vars

\* C15 witness: a call was rejected with the BEGIN error while another call's
\* transaction, with a row written in it, is open.
C15_Witness ==
    \E c, d \in Callers :
        /\ c # d
        /\ pc[c] = "done" /\ outcome[c] = BeginError /\ log[c] = << << "BEGIN", BeginError, d >> >>
        /\ InBody(d) /\ engine.tx /\ engine.owner = d
        /\ bodyWrites[d] # {} /\ bodyWrites[d] \subseteq engine.pending

C17_OwnTransactionOnly ==
    \A c \in Callers : \A k \in Terminal(c) : log[c][k][3] = c

\* C18: a row written by a top-level db.run that has resolved stays in the
\* store, whatever happens to a transaction that was open at the time.
C18_TopLevelAutonomous ==
    \A c \in Callers : RunResolved(c) => Row(c, 0) \in Visible(engine)

\* The position of an init statement in initializeDatabase.
StmtIndex(name) == CHOOSE i \in AllInitStmts : InitStmts[i] = name

\* The tables that are referenced, the tables with FOREIGN KEY clauses, all
\* tables.
ReferencedTables == {StmtIndex("CREATE users"), StmtIndex("CREATE products")}
ReferencingTables == {StmtIndex("CREATE sales"), StmtIndex("CREATE expenses")}
CreateStmts == ReferencedTables \cup ReferencingTables

\* C19: the init statements are issued one at a time in source order, each
\* after all earlier ones have completed successfully: users and products are
\* created before sales and expenses, all tables before any seed insert, and
\* nothing is issued after a statement that failed.
C19_InitOrder ==
    /\ initIssued = [k \in 1..Len(initIssued) |-> k]
    /\ initDone \subseteq 1..Len(initIssued)
    /\ \A i \in 1..Len(initIssued) :
        /\ 1..(initIssued[i] - 1) \subseteq initDone
        /\ initIssued[i] \in ReferencingTables => ReferencedTables \subseteq initDone
        /\ initIssued[i] \notin CreateStmts => CreateStmts \subseteq initDone
    /\ initializationPromise = "rejected" /\ libsqlClient # NULL =>
            Cardinality(initDone) = Len(initIssued) - 1
    /\ initializationPromise = "fulfilled" => initDone = AllInitStmts

\* C19 witness: the third seed insert failed after everything before it had
\* completed; the last statement was never issued.
C19_Witness ==
    /\ initializationPromise = "rejected" /\ initErr = InitStmtError
    /\ initIssued = << 1, 2, 3, 4, 5, 6, 7 >>
    /\ initDone = 1..6
    /\ \E c \in Callers : pc[c] = "done"

====
